---- MODULE Spec2Model ----
(***************************************************************************)
(* State-machine model of drone_motor_control.c: the 400 Hz control thread *)
(* (ControlThread) and the API functions that other threads call while it  *)
(* runs.                                                                   *)
(*                                                                         *)
(* Numbers.  A C float is modelled as a fixed-point integer: SCALE units   *)
(* per unit of the source (so 45 degrees is 450 and 0.5 m is 5); a float   *)
(* expression is evaluated exactly and truncated toward zero where the     *)
(* model stores it.  PID.integral is held multiplied by LOOP_FREQ, so that *)
(* integral += error * DT is the exact integer step integral += error.     *)
(* GPS latitude and longitude (double) are points of a metre grid.         *)
(* The uint16_t fields (throttle, motors) are plain integers 0..65535.     *)
(*                                                                         *)
(* Interleaving.  The source takes no lock and disables no interrupt, so   *)
(* an API call can run between any two statements of the control thread    *)
(* and the control thread can run between any two stores of a producer.    *)
(* The control thread is modelled one function call per step (the          *)
(* safety check in four steps); update_gps_data, update_baro_data and      *)
(* update_obstacle_data are modelled one field store per step.             *)
(***************************************************************************)
EXTENDS Integers, Sequences, FiniteSets, TLC

\* ---------------------------------------------------------------- constants
MOTOR_MIN == 1000
MOTOR_MAX == 2000
MOTOR_ARM == 1100
LOOP_FREQ == 400
MODE_MANUAL == 0
MODE_STABILIZE == 1
MODE_ALTITUDE_HOLD == 2
MODE_POSITION_HOLD == 3
MODE_AUTO == 4
MODE_RTH == 5
MAX_TILT_ANGLE == 45
RTH_ALTITUDE == 20
OBSTACLE_DISTANCE == 2
WHO_AM_I_ICM20948 == 234

\* Fixed-point resolution of the numbers that model a float.
SCALE == 10

\* ------------------------------------------------------------------- bounds
\* Number of control-loop iterations the model follows.
MaxTicks == 1
\* Number of API calls made by the other threads.
MaxCalls == 3

\* --------------------------------------------------------------- input sets
\* Values the WHO_AM_I register can return: the ICM-20948 identity or not.
WhoAmIValues == {WHO_AM_I_ICM20948, 0}
\* Accelerometer sample <<x, y, z>> in g (fixed point): level flight.
AccelLevel == <<0, 0, 10>>
\* Gyro sample <<x, y, z>> in deg/s (fixed point): at rest.
GyroRest == <<0, 0, 0>>
\* Gyro samples of the arming specification.  The rates are coarse (one
\* sample turns the estimate by 48 degrees in one tick) so that the tilt
\* limit is crossed within MaxTicks iterations.
GyroSamples == {GyroRest, <<192000, 0, 0>>, <<0, -192000, 0>>}
\* Arguments of update_gps_data: <<lat, lon, alt, speed, heading, sats>>
\* (lat, lon on the metre grid; alt, speed, heading fixed point): a fix 1 m
\* north and east of the origin moving east at 1 m/s, and a lost fix.
GpsCalls == {<<1, 1, 0, 10, 900, 7>>, <<0, 0, 0, 0, 0, 3>>}
\* Arguments of update_baro_data: <<altitude, vertical_speed>> (fixed point):
\* 25 m climbing at 1 m/s.
BaroCalls == {<<250, 10>>}
\* Arguments of update_obstacle_data: <<distance, angle, detected>>
\* (distance, angle fixed point): 1.5 m dead ahead.
ObstacleCalls == {<<15, 0, TRUE>>}
\* Arguments of set_flight_mode.
ModeCalls == {MODE_POSITION_HOLD, MODE_AUTO}
\* Arguments of set_target_position: <<lat, lon>>.
PositionCalls == {<<5, 5>>}
\* Gyro samples of a craft yawing to the left at 400 deg/s (1 degree in one
\* tick).
GyroYawSamples == {GyroRest, <<0, 0, -4000>>}
\* Arguments of update_baro_data for a fast climb: 25 m, climbing at 10 m/s.
BaroFastCalls == {<<250, 100>>}
\* Arguments of set_target_altitude (fixed point): 10 m.
AltitudeCalls == {100}
\* Arguments of update_gps_data for a craft that holds a fix 1 m north and
\* east of the origin.
GpsFixCalls == {<<1, 1, 0, 10, 900, 7>>}
\* Arguments of update_gps_data for a craft on its way home (home is the
\* origin): hovering with a fix 2 m north of home, and 5 m north and east.
GpsHomingCalls == {<<2, 0, 0, 0, 0, 7>>, <<5, 5, 0, 0, 0, 7>>}
\* Arguments of set_flight_mode for a pilot who takes over or asks for
\* position hold.
PilotModeCalls == {MODE_MANUAL, MODE_STABILIZE, MODE_POSITION_HOLD}
\* Arguments of update_obstacle_data for an obstacle that comes and goes:
\* 1.5 m dead ahead, then nothing within 5 m.
ObstaclePassCalls == {<<15, 0, TRUE>>, <<50, 0, FALSE>>}

\* ------------------------------------------------------------------ helpers
Abs(x) == IF x < 0 THEN -x ELSE x

\* Float division by a positive number, truncated toward zero when stored.
TDiv(a, b) == IF a >= 0 THEN a \div b ELSE -((-a) \div b)

RECURSIVE IsqrtFrom(_, _)
IsqrtFrom(n, r) == IF (r + 1) * (r + 1) > n THEN r ELSE IsqrtFrom(n, r + 1)

\* sqrtf, rounded down.
Isqrt(n) == IsqrtFrom(n, 0)

\* A whole number of source units as a fixed-point number.
F(x) == x * SCALE

\* cosf and sinf of a fixed-point angle in degrees, exact on the multiples
\* of 90 degrees (the only headings and yaws the input sets produce).
CosDeg(a) == CASE a % F(360) = 0 -> 1 [] a % F(360) = F(90) -> 0 [] a % F(360) = F(180) -> -1 [] a % F(360) = F(270) -> 0

SinDeg(a) == CosDeg(a - F(90))

\* atan2f(y, x) * 180 / M_PI as a fixed-point angle, exact on the axes.
Atan2Deg(y, x) == CASE y = 0 /\ x >= 0 -> 0 [] y = 0 /\ x < 0 -> F(180) [] y > 0 /\ x = 0 -> F(90) [] y < 0 /\ x = 0 -> -F(90)

constrain_float(val, min, max) == IF val < min THEN min ELSE IF val > max THEN max ELSE val

\* Conversion of a float to uint16_t.  The value is truncated; when the
\* truncated value is outside 0..65535 the conversion is undefined, and the
\* builds produce a saturated value (ARM VCVT) or a wrapped one (x86).
ToUint16(v) == IF v >= 0 /\ v <= 65535 THEN {v} ELSE {IF v < 0 THEN 0 ELSE 65535, v % 65536}

\* Conversion of a float to int16_t, undefined outside -32768..32767.
ToInt16(v) == IF v >= -32768 /\ v <= 32767 THEN {v} ELSE {IF v < 0 THEN -32768 ELSE 32767, ((v + 32768) % 65536) - 32768}

\* Distance between two grid points, in fixed-point metres.
get_distance_meters(pos1, pos2) == Isqrt(SCALE * SCALE * ((pos2.lat - pos1.lat) * (pos2.lat - pos1.lat) + (pos2.lon - pos1.lon) * (pos2.lon - pos1.lon)))

\* <<error_north, error_east>> of position_hold_controller in fixed-point
\* metres: the distance decomposed along the bearing is the displacement on
\* the grid.
PositionError(from, to) == <<F(to.lat - from.lat), F(to.lon - from.lon)>>

\* ---------------------------------------------------------------------- PID
PidNames == {"pid_roll", "pid_pitch", "pid_yaw", "pid_altitude", "pid_velocity_z", "pid_pos_n", "pid_pos_e", "pid_vel_n", "pid_vel_e"}

\* Gains as fractions <<numerator, denominator>>, as control_system_init
\* passes them to init_pid.
PidConfig(name) ==
  CASE name = "pid_roll"       -> [kp |-> <<3, 2>>, ki |-> <<1, 50>>, kd |-> <<4, 5>>, max_integral |-> 400]
    [] name = "pid_pitch"      -> [kp |-> <<3, 2>>, ki |-> <<1, 50>>, kd |-> <<4, 5>>, max_integral |-> 400]
    [] name = "pid_yaw"        -> [kp |-> <<2, 1>>, ki |-> <<1, 20>>, kd |-> <<1, 2>>, max_integral |-> 400]
    [] name = "pid_altitude"   -> [kp |-> <<3, 1>>, ki |-> <<1, 2>>, kd |-> <<3, 2>>, max_integral |-> 500]
    [] name = "pid_velocity_z" -> [kp |-> <<2, 1>>, ki |-> <<1, 10>>, kd |-> <<1, 2>>, max_integral |-> 300]
    [] name = "pid_pos_n"      -> [kp |-> <<1, 1>>, ki |-> <<1, 10>>, kd |-> <<1, 2>>, max_integral |-> 100]
    [] name = "pid_pos_e"      -> [kp |-> <<1, 1>>, ki |-> <<1, 10>>, kd |-> <<1, 2>>, max_integral |-> 100]
    [] name = "pid_vel_n"      -> [kp |-> <<1, 2>>, ki |-> <<1, 20>>, kd |-> <<1, 10>>, max_integral |-> 50]
    [] name = "pid_vel_e"      -> [kp |-> <<1, 2>>, ki |-> <<1, 20>>, kd |-> <<1, 10>>, max_integral |-> 50]

\* The fields of a PID that one call hands to the next: error and output
\* are overwritten by every update_pid before they are read.
init_pid == [prev_error |-> 0, integral |-> 0]

\* update_pid without the anti-windup clamp of the integral.
update_pid_unclamped(p, name, setpoint, measured) ==
  LET c == PidConfig(name)
      error == setpoint - measured
      integral == p.integral + error
      derivative == (error - p.prev_error) * LOOP_FREQ
      output == TDiv(c.kp[1] * error, c.kp[2]) + TDiv(c.ki[1] * integral, c.ki[2] * LOOP_FREQ) + TDiv(c.kd[1] * derivative, c.kd[2])
  IN [pid |-> [prev_error |-> error, integral |-> integral], output |-> output]

\* update_pid with dt = DT: the new state of the PID and the output.
update_pid(p, name, setpoint, measured) ==
  LET c == PidConfig(name)
      error == setpoint - measured
      lim == F(c.max_integral) * LOOP_FREQ
      integral == constrain_float(p.integral + error, -lim, lim)
      derivative == (error - p.prev_error) * LOOP_FREQ
      output == TDiv(c.kp[1] * error, c.kp[2]) + TDiv(c.ki[1] * integral, c.ki[2] * LOOP_FREQ) + TDiv(c.kd[1] * derivative, c.kd[2])
  IN [pid |-> [prev_error |-> error, integral |-> integral], output |-> output]

\* -------------------------------------------------------------- controllers
\* The complementary filter: the angles after one call.
compute_angles(data) ==
  LET accel_roll == Atan2Deg(data.accel[2], data.accel[3])
      accel_pitch == Atan2Deg(-data.accel[1], Isqrt(data.accel[2] * data.accel[2] + data.accel[3] * data.accel[3]))
      roll == data.angles.roll + TDiv(data.gyro[1], LOOP_FREQ)
      pitch == data.angles.pitch + TDiv(data.gyro[2], LOOP_FREQ)
      yaw == data.angles.yaw + TDiv(data.gyro[3], LOOP_FREQ)
  IN [roll |-> TDiv(98 * roll + 2 * accel_roll, 100), pitch |-> TDiv(98 * pitch + 2 * accel_pitch, 100), yaw |-> yaw]

\* The guard of altitude_hold_controller: the cascade runs.
AltitudeActive(c) == c.flight_mode >= MODE_ALTITUDE_HOLD

\* altitude_hold_controller: the command and PID states it can leave (one
\* for each outcome of the int16_t conversion).
altitude_hold_controller(c, b, pd) ==
  IF ~AltitudeActive(c) THEN {[cmd |-> c, pid |-> pd]}
  ELSE LET outer == update_pid(pd.pid_altitude, "pid_altitude", c.target_altitude, b.altitude)
           target_climb_rate == constrain_float(outer.output, -F(3), F(3))
           inner == update_pid(pd.pid_velocity_z, "pid_velocity_z", target_climb_rate, b.vertical_speed)
           pd2 == [pd EXCEPT !.pid_altitude = outer.pid, !.pid_velocity_z = inner.pid]
       IN {[cmd |-> [c EXCEPT !.throttle = constrain_float((1500 + adj) % 65536, MOTOR_MIN, MOTOR_MAX)], pid |-> pd2] : adj \in ToInt16(TDiv(inner.output, SCALE))}

\* PositionActive with the test of the fix left out.
PositionActive_nofix(c, g) == c.flight_mode >= MODE_POSITION_HOLD

\* The guard of position_hold_controller: the cascade runs.
PositionActive(c, g) == c.flight_mode >= MODE_POSITION_HOLD /\ g.fix_valid

\* position_hold_controller: the command and PID states it leaves.
position_hold_controller(c, g, yaw, pd) ==
  IF ~PositionActive(c, g) THEN [cmd |-> c, pid |-> pd]
  ELSE LET err == PositionError(g.position, c.target_position)
           pos_n == update_pid(pd.pid_pos_n, "pid_pos_n", 0, err[1])
           pos_e == update_pid(pd.pid_pos_e, "pid_pos_e", 0, err[2])
           target_vel_n == constrain_float(pos_n.output, -F(5), F(5))
           target_vel_e == constrain_float(pos_e.output, -F(5), F(5))
           vel_n == g.ground_speed * CosDeg(g.heading)
           vel_e == g.ground_speed * SinDeg(g.heading)
           angle_n == update_pid(pd.pid_vel_n, "pid_vel_n", target_vel_n, vel_n)
           angle_e == update_pid(pd.pid_vel_e, "pid_vel_e", target_vel_e, vel_e)
           pitch == -(angle_n.output * CosDeg(yaw) + angle_e.output * SinDeg(yaw))
           roll == -(angle_e.output * CosDeg(yaw) - angle_n.output * SinDeg(yaw))
       IN [cmd |-> [c EXCEPT !.setpoint.pitch = constrain_float(pitch, -F(25), F(25)), !.setpoint.roll = constrain_float(roll, -F(25), F(25))],
           pid |-> [pd EXCEPT !.pid_pos_n = pos_n.pid, !.pid_pos_e = pos_e.pid, !.pid_vel_n = angle_n.pid, !.pid_vel_e = angle_e.pid]]

\* The guard of return_to_home_controller: the controller runs.
RthActive(c, g) == c.flight_mode = MODE_RTH /\ g.fix_valid

\* RthLand with the altitude test turned around.
RthLand_high(c, g, b) == get_distance_meters(g.position, c.home_position) < F(2) /\ b.altitude > F(1)

\* The land condition of return_to_home_controller.
RthLand(c, g, b) == get_distance_meters(g.position, c.home_position) < F(2) /\ b.altitude < F(1)

\* return_to_home_controller with the descent rule before the climb rule.
return_to_home_controller_climb(c, g, b, yaw, pd) ==
  IF ~RthActive(c, g) THEN [cmd |-> c, pid |-> pd]
  ELSE IF RthLand(c, g, b) THEN [cmd |-> [c EXCEPT !.armed = FALSE], pid |-> pd]
  ELSE LET distance == get_distance_meters(g.position, c.home_position)
           c1 == IF distance < F(3) THEN [c EXCEPT !.target_altitude = SCALE \div 2] ELSE c
           c2 == [c1 EXCEPT !.target_position = c1.home_position]
           r == position_hold_controller(c2, g, yaw, pd)
       IN [cmd |-> IF b.altitude < F(RTH_ALTITUDE) THEN [r.cmd EXCEPT !.target_altitude = F(RTH_ALTITUDE)] ELSE r.cmd, pid |-> r.pid]

\* return_to_home_controller: the command and PID states it leaves.
return_to_home_controller(c, g, b, yaw, pd) ==
  IF ~RthActive(c, g) THEN [cmd |-> c, pid |-> pd]
  ELSE IF RthLand(c, g, b) THEN [cmd |-> [c EXCEPT !.armed = FALSE], pid |-> pd]
  ELSE LET distance == get_distance_meters(g.position, c.home_position)
           c1 == IF b.altitude < F(RTH_ALTITUDE) THEN [c EXCEPT !.target_altitude = F(RTH_ALTITUDE)] ELSE c
           c2 == [c1 EXCEPT !.target_position = c1.home_position]
           r == position_hold_controller(c2, g, yaw, pd)
       IN [cmd |-> IF distance < F(3) THEN [r.cmd EXCEPT !.target_altitude = SCALE \div 2] ELSE r.cmd, pid |-> r.pid]

\* The guard of the override in obstacle_avoidance.
ObstacleNear(o) == o.detected /\ o.distance < F(OBSTACLE_DISTANCE)

\* obstacle_avoidance that leaves the pitch setpoint alone.
obstacle_avoidance_roll(c, o) ==
  IF ~ObstacleNear(o) THEN c
  ELSE [c EXCEPT !.setpoint.roll = F(10) * SinDeg(o.angle + F(90))]

\* obstacle_avoidance: the command it leaves.
obstacle_avoidance(c, o) ==
  IF ~ObstacleNear(o) THEN c
  ELSE [c EXCEPT !.setpoint.pitch = IF c.setpoint.pitch < 0 THEN 0 ELSE c.setpoint.pitch,
                 !.setpoint.roll = F(10) * SinDeg(o.angle + F(90))]

\* The tilt and NaN conditions of safety_check (the fixed-point estimate
\* is never NaN).
TiltExceeded(angles) == Abs(angles.roll) > F(MAX_TILT_ANGLE) \/ Abs(angles.pitch) > F(MAX_TILT_ANGLE)

\* SafetyTilt written as an assignment of the test's outcome.
SafetyTilt_assign(c, angles) == [c EXCEPT !.armed = ~TiltExceeded(angles)]

\* The first two statements of safety_check: the command they leave.
SafetyTilt(c, angles) == IF TiltExceeded(angles) THEN [c EXCEPT !.armed = FALSE] ELSE c

\* The condition of the GPS failsafe of safety_check.
GpsLost(c, g) == c.flight_mode >= MODE_POSITION_HOLD /\ ~g.fix_valid

\* SafetyDemote that also disarms.
SafetyDemote_disarm(c) == [c EXCEPT !.flight_mode = MODE_ALTITUDE_HOLD, !.armed = FALSE]

\* The store of the GPS failsafe of safety_check.
SafetyDemote(c) == [c EXCEPT !.flight_mode = MODE_ALTITUDE_HOLD]

\* DisarmedOutputs that returns without writing the outputs.
DisarmedOutputs_keep(m) == m

\* The disarmed branch of stabilize_and_mix: all eight outputs.
DisarmedOutputs(m) == [i \in 1..8 |-> MOTOR_MIN]

\* One output of the armed branch of stabilize_and_mix: the float sum is
\* stored in the uint16_t field, which is then clamped.
MixOutputs(sum) == {constrain_float(v, MOTOR_MIN, MOTOR_MAX) : v \in ToUint16(TDiv(sum, SCALE))}

\* The armed branch of stabilize_and_mix: the motor and PID states it can
\* leave (m5..m8 are not written).
ArmedMix(c, angles, m, pd) ==
  LET r == update_pid(pd.pid_roll, "pid_roll", c.setpoint.roll, angles.roll)
      p == update_pid(pd.pid_pitch, "pid_pitch", c.setpoint.pitch, angles.pitch)
      y == update_pid(pd.pid_yaw, "pid_yaw", c.setpoint.yaw, angles.yaw)
      base == F(c.throttle)
      pd2 == [pd EXCEPT !.pid_roll = r.pid, !.pid_pitch = p.pid, !.pid_yaw = y.pid]
  IN {[motors |-> [m EXCEPT ![1] = v1, ![2] = v2, ![3] = v3, ![4] = v4], pid |-> pd2] :
        <<v1, v2, v3, v4>> \in MixOutputs(base - r.output + p.output - y.output)
                          \X MixOutputs(base + r.output + p.output + y.output)
                          \X MixOutputs(base - r.output - p.output + y.output)
                          \X MixOutputs(base + r.output - p.output - y.output)}

\* -------------------------------------------------------------------- state
VARIABLES
  pc,             \* position of the control thread; "boot" before it exists
  who_am_i,       \* what the WHO_AM_I register returns
  imu_configured, \* init_imu_icm20948 has written the configuration
  imu,            \* static IMUData imu
  gps,            \* static GPSData gps
  baro,           \* static BaroData baro
  obstacle,       \* static ObstacleData obstacle
  cmd,            \* static FlightCommand cmd
  motors,         \* static MotorOutputs motors, m1..m8
  pwm,            \* pulse last handed to set_motor_pwm, per channel (0: none)
  led,            \* arming LED pad
  pid,            \* the nine static PID
  gps_call,       \* update_gps_data in progress
  baro_call,      \* update_baro_data in progress
  obstacle_call,  \* update_obstacle_data in progress
  tick,           \* completed loop iterations
  calls,          \* API calls made
  tk,             \* history of the current loop iteration
  last_arm,       \* history: the last of arm_motors / disarm_motors called
  fresh_arm,      \* history: armed by arm_motors, no armed mixer pass since
  override_tick   \* history: the iteration whose obstacle override wrote the
                  \* present cmd.setpoint.roll, -1 if no override wrote it

vars == <<pc, who_am_i, imu_configured, imu, gps, baro, obstacle, cmd, motors, pwm, led, pid, gps_call, baro_call, obstacle_call, tick, calls, tk, last_arm, fresh_arm, override_tick>>

hw == <<who_am_i, imu_configured, pwm, led>>

sensors == <<gps, baro, obstacle>>

producers == <<gps_call, baro_call, obstacle_call>>

history == <<last_arm, fresh_arm, override_tick>>

\* A producer that is not inside a call.
Idle == [pc |-> 0]

\* The GPSData that a completed update_gps_data(args) leaves.
GpsRecord(a) == [position |-> [lat |-> a[1], lon |-> a[2], alt |-> a[3]], ground_speed |-> a[4], heading |-> a[5], num_sats |-> a[6], fix_valid |-> (a[6] >= 6)]

\* The BaroData that a completed update_baro_data(args) leaves.
BaroRecord(a) == [altitude |-> a[1], vertical_speed |-> a[2]]

\* The ObstacleData that a completed update_obstacle_data(args) leaves.
ObstacleRecord(a) == [distance |-> a[1], angle |-> a[2], detected |-> a[3]]

\* History of a loop iteration, as it is when the iteration starts.
TickStart(c, g, b, pd) ==
  [quiet |-> TRUE,                 \* no API step since the iteration started
   flight_mode |-> c.flight_mode,  \* cmd.flight_mode at the start
   fix_valid |-> g.fix_valid,      \* gps.fix_valid at the start
   armed |-> c.armed,              \* cmd.armed at the start
   land |-> (get_distance_meters(g.position, c.home_position) < F(2) /\ b.altitude < F(1)),  \* within 2 m of home, below 1 m
   nav |-> <<c.setpoint.roll, c.setpoint.pitch, c.target_position, pd.pid_pos_n, pd.pid_pos_e, pd.pid_vel_n, pd.pid_vel_e>>,
   alt_runs |-> 0,                 \* runs of the altitude cascade
   pos_runs |-> 0,                 \* runs of the position cascade
   armed_at_mix |-> FALSE,         \* cmd.armed as stabilize_and_mix read it
   disarm_at_mix |-> FALSE,        \* last_arm = "disarm" when it ran
   gps_lost |-> FALSE]             \* the GPS failsafe condition as tested

\* The statically initialised globals, before control_system_init.
Init ==
  /\ pc = "boot"
  /\ who_am_i \in WhoAmIValues
  /\ imu_configured = FALSE
  /\ imu = [gyro |-> <<0, 0, 0>>, accel |-> <<0, 0, 0>>, angles |-> [roll |-> 0, pitch |-> 0, yaw |-> 0]]
  /\ gps = GpsRecord(<<0, 0, 0, 0, 0, 0>>)
  /\ baro = BaroRecord(<<0, 0>>)
  /\ obstacle = ObstacleRecord(<<0, 0, FALSE>>)
  /\ cmd = [throttle |-> 0, setpoint |-> [roll |-> 0, pitch |-> 0, yaw |-> 0], armed |-> FALSE, flight_mode |-> 0,
            target_altitude |-> 0, target_position |-> [lat |-> 0, lon |-> 0, alt |-> 0], home_position |-> [lat |-> 0, lon |-> 0, alt |-> 0]]
  /\ motors = [i \in 1..8 |-> 0]
  /\ pwm = [i \in 1..8 |-> 0]
  /\ led = FALSE
  /\ pid = [n \in PidNames |-> init_pid]
  /\ gps_call = Idle
  /\ baro_call = Idle
  /\ obstacle_call = Idle
  /\ tick = 0
  /\ calls = 0
  /\ tk = TickStart(cmd, gps, baro, pid)
  /\ last_arm = "none"
  /\ fresh_arm = FALSE
  /\ override_tick = -1

\* ----------------------------------------------------------- initialisation
\* init_imu_icm20948: whether the configuration registers get written.
init_imu_icm20948(w) == w = WHO_AM_I_ICM20948

\* control_system_init: configures the IMU, initialises the PIDs, the
\* command and the angles, and creates the control thread.
ControlSystemInit ==
  /\ pc = "boot"
  /\ imu_configured' = init_imu_icm20948(who_am_i)
  /\ pid' = [n \in PidNames |-> init_pid]
  /\ cmd' = [cmd EXCEPT !.throttle = MOTOR_MIN, !.setpoint = [roll |-> 0, pitch |-> 0, yaw |-> 0], !.armed = FALSE,
                        !.flight_mode = MODE_STABILIZE, !.target_altitude = 0]
  /\ imu' = [imu EXCEPT !.angles = [roll |-> 0, pitch |-> 0, yaw |-> 0]]
  /\ pc' = "read_imu"
  /\ tk' = TickStart(cmd', gps, baro, pid')
  /\ UNCHANGED <<who_am_i, pwm, led, sensors, motors, producers, tick, calls, history>>

\* ----------------------------------------------------------- control thread
\* read_imu_data: one gyro sample g and one accelerometer sample a.
ReadImu(g, a) ==
  /\ pc = "read_imu"
  /\ imu' = [imu EXCEPT !.gyro = g, !.accel = a]
  /\ pc' = "compute_angles"
  /\ UNCHANGED <<hw, sensors, cmd, motors, pid, producers, tick, calls, tk, history>>

ComputeAngles ==
  /\ pc = "compute_angles"
  /\ imu' = [imu EXCEPT !.angles = compute_angles(imu)]
  /\ pc' = "dispatch"
  /\ UNCHANGED <<hw, sensors, cmd, motors, pid, producers, tick, calls, tk, history>>

\* switch (cmd.flight_mode): which controller is called first.
Dispatch ==
  /\ pc = "dispatch"
  /\ pc' = CASE cmd.flight_mode \in {MODE_ALTITUDE_HOLD, MODE_POSITION_HOLD, MODE_AUTO} -> "altitude"
             [] cmd.flight_mode = MODE_RTH -> "rth"
             [] OTHER -> "position_gate"
  /\ UNCHANGED <<hw, imu, sensors, cmd, motors, pid, producers, tick, calls, tk, history>>

\* case MODE_RTH: return_to_home_controller().
ReturnToHome ==
  /\ pc = "rth"
  /\ LET r == return_to_home_controller(cmd, gps, baro, imu.angles.yaw, pid)
         ran == RthActive(cmd, gps) /\ ~RthLand(cmd, gps, baro) /\ PositionActive(cmd, gps)
     IN /\ cmd' = r.cmd
        /\ pid' = r.pid
        /\ tk' = [tk EXCEPT !.pos_runs = IF ran THEN @ + 1 ELSE @]
        /\ override_tick' = IF ran THEN -1 ELSE override_tick
  /\ pc' = "altitude"
  /\ UNCHANGED <<hw, imu, sensors, motors, producers, tick, calls, last_arm, fresh_arm>>

\* altitude_hold_controller(), in either case of the switch.
AltitudeHold ==
  /\ pc = "altitude"
  /\ \E r \in altitude_hold_controller(cmd, baro, pid) : cmd' = r.cmd /\ pid' = r.pid
  /\ tk' = [tk EXCEPT !.alt_runs = IF AltitudeActive(cmd) THEN @ + 1 ELSE @]
  /\ pc' = "position_gate"
  /\ UNCHANGED <<hw, imu, sensors, motors, producers, tick, calls, history>>

\* PositionGate with the obstacle override skipped when the position cascade
\* is not due.
PositionGate_skip ==
  /\ pc = "position_gate"
  /\ pc' = IF cmd.flight_mode >= MODE_POSITION_HOLD THEN "position" ELSE "safety_tilt"
  /\ UNCHANGED <<hw, imu, sensors, cmd, motors, pid, producers, tick, calls, tk, history>>

\* if (cmd.flight_mode >= MODE_POSITION_HOLD).
PositionGate ==
  /\ pc = "position_gate"
  /\ pc' = IF cmd.flight_mode >= MODE_POSITION_HOLD THEN "position" ELSE "obstacle"
  /\ UNCHANGED <<hw, imu, sensors, cmd, motors, pid, producers, tick, calls, tk, history>>

\* position_hold_controller(), called from the loop.
PositionHold ==
  /\ pc = "position"
  /\ LET r == position_hold_controller(cmd, gps, imu.angles.yaw, pid)
     IN cmd' = r.cmd /\ pid' = r.pid
  /\ tk' = [tk EXCEPT !.pos_runs = IF PositionActive(cmd, gps) THEN @ + 1 ELSE @]
  /\ override_tick' = IF PositionActive(cmd, gps) THEN -1 ELSE override_tick
  /\ pc' = "obstacle"
  /\ UNCHANGED <<hw, imu, sensors, motors, producers, tick, calls, last_arm, fresh_arm>>

ObstacleAvoidance ==
  /\ pc = "obstacle"
  /\ cmd' = obstacle_avoidance(cmd, obstacle)
  /\ override_tick' = IF ObstacleNear(obstacle) THEN tick ELSE override_tick
  /\ pc' = "safety_tilt"
  /\ UNCHANGED <<hw, imu, sensors, motors, pid, producers, tick, calls, tk, last_arm, fresh_arm>>

\* safety_check: the tilt and NaN tests.
SafetyCheckTilt ==
  /\ pc = "safety_tilt"
  /\ cmd' = SafetyTilt(cmd, imu.angles)
  /\ pc' = "safety_gps"
  /\ UNCHANGED <<hw, imu, sensors, motors, pid, producers, tick, calls, tk, history>>

\* safety_check: the test of the GPS failsafe.
SafetyCheckGps ==
  /\ pc = "safety_gps"
  /\ pc' = IF GpsLost(cmd, gps) THEN "safety_demote" ELSE "safety_led"
  /\ tk' = [tk EXCEPT !.gps_lost = GpsLost(cmd, gps)]
  /\ UNCHANGED <<hw, imu, sensors, cmd, motors, pid, producers, tick, calls, history>>

\* safety_check: the store of the GPS failsafe.
SafetyCheckDemote ==
  /\ pc = "safety_demote"
  /\ cmd' = SafetyDemote(cmd)
  /\ pc' = "safety_led"
  /\ UNCHANGED <<hw, imu, sensors, motors, pid, producers, tick, calls, tk, history>>

\* safety_check: the arming LED.
SafetyCheckLed ==
  /\ pc = "safety_led"
  /\ led' = cmd.armed
  /\ pc' = "mix"
  /\ UNCHANGED <<who_am_i, imu_configured, pwm, imu, sensors, cmd, motors, pid, producers, tick, calls, tk, history>>

StabilizeAndMix ==
  /\ pc = "mix"
  /\ IF ~cmd.armed
       THEN motors' = DisarmedOutputs(motors) /\ UNCHANGED <<pid, fresh_arm>>
       ELSE /\ \E r \in ArmedMix(cmd, imu.angles, motors, pid) : motors' = r.motors /\ pid' = r.pid
            /\ fresh_arm' = FALSE
  /\ tk' = [tk EXCEPT !.armed_at_mix = cmd.armed, !.disarm_at_mix = (last_arm = "disarm")]
  /\ pc' = "emit"
  /\ UNCHANGED <<hw, imu, sensors, cmd, producers, tick, calls, last_arm, override_tick>>

\* set_motor_pwm(1..4, motors.m1..m4): the pulses handed to the PWM driver.
EmitPwm ==
  /\ pc = "emit"
  /\ pwm' = [i \in 1..8 |-> IF i <= 4 THEN motors[i] ELSE pwm[i]]
  /\ pc' = "sleep"
  /\ UNCHANGED <<who_am_i, imu_configured, led, imu, sensors, cmd, motors, pid, producers, tick, calls, tk, history>>

\* chThdSleepUntilWindowed: the iteration ends and the next one starts.
Sleep ==
  /\ pc = "sleep"
  /\ tick < MaxTicks
  /\ tick' = tick + 1
  /\ tk' = TickStart(cmd, gps, baro, pid)
  /\ pc' = "read_imu"
  /\ UNCHANGED <<hw, imu, sensors, cmd, motors, pid, producers, calls, history>>

\* ---------------------------------------------------------------- API calls
\* What every API step does to the model's bookkeeping: n calls are counted
\* and the loop iteration under way is no longer undisturbed.
ApiStep(n) ==
  /\ pc # "boot"
  /\ calls + n <= MaxCalls
  /\ calls' = calls + n
  /\ tk' = [tk EXCEPT !.quiet = FALSE]

SetFlightMode(mode) ==
  /\ ApiStep(1)
  /\ cmd' = [cmd EXCEPT !.flight_mode = mode]
  /\ UNCHANGED <<pc, hw, imu, sensors, motors, pid, producers, tick, history>>

SetTargetAltitude(altitude_m) ==
  /\ ApiStep(1)
  /\ cmd' = [cmd EXCEPT !.target_altitude = altitude_m]
  /\ UNCHANGED <<pc, hw, imu, sensors, motors, pid, producers, tick, history>>

SetTargetPosition(lat, lon) ==
  /\ ApiStep(1)
  /\ cmd' = [cmd EXCEPT !.target_position.lat = lat, !.target_position.lon = lon]
  /\ UNCHANGED <<pc, hw, imu, sensors, motors, pid, producers, tick, history>>

SetHomePosition(lat, lon, alt) ==
  /\ ApiStep(1)
  /\ cmd' = [cmd EXCEPT !.home_position = [lat |-> lat, lon |-> lon, alt |-> alt]]
  /\ UNCHANGED <<pc, hw, imu, sensors, motors, pid, producers, tick, history>>

ArmMotors ==
  /\ ApiStep(1)
  /\ cmd' = [cmd EXCEPT !.armed = TRUE]
  /\ last_arm' = "arm"
  /\ fresh_arm' = IF cmd.armed THEN fresh_arm ELSE TRUE
  /\ UNCHANGED <<pc, hw, imu, sensors, motors, pid, producers, tick, override_tick>>

DisarmMotors ==
  /\ ApiStep(1)
  /\ cmd' = [cmd EXCEPT !.armed = FALSE]
  /\ last_arm' = "disarm"
  /\ UNCHANGED <<pc, hw, imu, sensors, motors, pid, producers, tick, fresh_arm, override_tick>>

TriggerReturnToHome ==
  /\ ApiStep(1)
  /\ cmd' = [cmd EXCEPT !.flight_mode = MODE_RTH]
  /\ UNCHANGED <<pc, hw, imu, sensors, motors, pid, producers, tick, history>>

\* The k-th store of update_gps_data(a) into the snapshot g.
GpsStore(g, a, k) ==
  CASE k = 1 -> [g EXCEPT !.position.lat = a[1]]
    [] k = 2 -> [g EXCEPT !.position.lon = a[2]]
    [] k = 3 -> [g EXCEPT !.position.alt = a[3]]
    [] k = 4 -> [g EXCEPT !.ground_speed = a[4]]
    [] k = 5 -> [g EXCEPT !.heading = a[5]]
    [] k = 6 -> [g EXCEPT !.num_sats = a[6]]
    [] k = 7 -> [g EXCEPT !.fix_valid = (a[6] >= 6)]

\* update_gps_data is entered and makes its first store.
UpdateGpsBegin(a) ==
  /\ gps_call.pc = 0
  /\ ApiStep(1)
  /\ gps' = GpsStore(gps, a, 1)
  /\ gps_call' = [pc |-> 1, args |-> a, before |-> gps]
  /\ UNCHANGED <<pc, hw, imu, baro, obstacle, cmd, motors, pid, baro_call, obstacle_call, tick, history>>

\* update_gps_data makes its next store, and returns after the last one.
UpdateGpsStep ==
  /\ gps_call.pc # 0
  /\ ApiStep(0)
  /\ gps' = GpsStore(gps, gps_call.args, gps_call.pc + 1)
  /\ gps_call' = IF gps_call.pc + 1 = 7 THEN Idle ELSE [gps_call EXCEPT !.pc = @ + 1]
  /\ UNCHANGED <<pc, hw, imu, baro, obstacle, cmd, motors, pid, baro_call, obstacle_call, tick, history>>

\* The k-th store of update_baro_data(a) into the snapshot b.
BaroStore(b, a, k) == IF k = 1 THEN [b EXCEPT !.altitude = a[1]] ELSE [b EXCEPT !.vertical_speed = a[2]]

UpdateBaroBegin(a) ==
  /\ baro_call.pc = 0
  /\ ApiStep(1)
  /\ baro' = BaroStore(baro, a, 1)
  /\ baro_call' = [pc |-> 1, args |-> a, before |-> baro]
  /\ UNCHANGED <<pc, hw, imu, gps, obstacle, cmd, motors, pid, gps_call, obstacle_call, tick, history>>

UpdateBaroStep ==
  /\ baro_call.pc # 0
  /\ ApiStep(0)
  /\ baro' = BaroStore(baro, baro_call.args, 2)
  /\ baro_call' = Idle
  /\ UNCHANGED <<pc, hw, imu, gps, obstacle, cmd, motors, pid, gps_call, obstacle_call, tick, history>>

\* The k-th store of update_obstacle_data(a) into the snapshot o.
ObstacleStore(o, a, k) ==
  CASE k = 1 -> [o EXCEPT !.distance = a[1]]
    [] k = 2 -> [o EXCEPT !.angle = a[2]]
    [] k = 3 -> [o EXCEPT !.detected = a[3]]

UpdateObstacleBegin(a) ==
  /\ obstacle_call.pc = 0
  /\ ApiStep(1)
  /\ obstacle' = ObstacleStore(obstacle, a, 1)
  /\ obstacle_call' = [pc |-> 1, args |-> a, before |-> obstacle]
  /\ UNCHANGED <<pc, hw, imu, gps, baro, cmd, motors, pid, gps_call, baro_call, tick, history>>

UpdateObstacleStep ==
  /\ obstacle_call.pc # 0
  /\ ApiStep(0)
  /\ obstacle' = ObstacleStore(obstacle, obstacle_call.args, obstacle_call.pc + 1)
  /\ obstacle_call' = IF obstacle_call.pc + 1 = 3 THEN Idle ELSE [obstacle_call EXCEPT !.pc = @ + 1]
  /\ UNCHANGED <<pc, hw, imu, gps, baro, cmd, motors, pid, gps_call, baro_call, tick, history>>

\* ----------------------------------------------------------- specifications
\* The steps of control_system_init and of ControlThread, but read_imu_data.
ThreadStep ==
  \/ ControlSystemInit
  \/ ComputeAngles
  \/ Dispatch
  \/ ReturnToHome
  \/ AltitudeHold
  \/ PositionGate
  \/ PositionHold
  \/ ObstacleAvoidance
  \/ SafetyCheckTilt
  \/ SafetyCheckGps
  \/ SafetyCheckDemote
  \/ SafetyCheckLed
  \/ StabilizeAndMix
  \/ EmitPwm
  \/ Sleep

\* Arming: the craft is armed and disarmed, sent home and shown an obstacle
\* while the gyro turns it.
Next ==
  \/ ThreadStep
  \/ \E g \in GyroSamples : ReadImu(g, AccelLevel)
  \/ ArmMotors
  \/ DisarmMotors
  \/ TriggerReturnToHome
  \/ \E a \in ObstacleCalls : UpdateObstacleBegin(a)
  \/ UpdateObstacleStep

Spec == Init /\ [][Next]_vars

\* Navigation: the craft in level flight is armed, put in a GPS mode, given
\* a target, and fed GPS and barometer samples.
NextNav ==
  \/ ThreadStep
  \/ ReadImu(GyroRest, AccelLevel)
  \/ ArmMotors
  \/ \E mode \in ModeCalls : SetFlightMode(mode)
  \/ TriggerReturnToHome
  \/ \E p \in PositionCalls : SetTargetPosition(p[1], p[2])
  \/ \E a \in GpsCalls : UpdateGpsBegin(a)
  \/ UpdateGpsStep
  \/ \E a \in BaroCalls : UpdateBaroBegin(a)
  \/ UpdateBaroStep

SpecNav == Init /\ [][NextNav]_vars

\* A yawing craft in the altitude modes: return to home is triggered without
\* a fix (the safety monitor then demotes to altitude hold), the target
\* altitude is set and the barometer reports a fast climb.
NextAlt ==
  \/ ThreadStep
  \/ \E g \in GyroYawSamples : ReadImu(g, AccelLevel)
  \/ TriggerReturnToHome
  \/ \E a \in AltitudeCalls : SetTargetAltitude(a)
  \/ \E a \in BaroFastCalls : UpdateBaroBegin(a)
  \/ UpdateBaroStep

SpecAlt == Init /\ [][NextAlt]_vars

\* A level craft passing an obstacle, in stabilize mode or, once return to
\* home is triggered, under the position cascade.
NextObs ==
  \/ ThreadStep
  \/ ReadImu(GyroRest, AccelLevel)
  \/ TriggerReturnToHome
  \/ \E a \in GpsFixCalls : UpdateGpsBegin(a)
  \/ UpdateGpsStep
  \/ \E a \in ObstaclePassCalls : UpdateObstacleBegin(a)
  \/ UpdateObstacleStep

SpecObs == Init /\ [][NextObs]_vars

\* A level craft returning home from two distances, on the ground or at
\* 25 m, with a target position set before.
NextRth ==
  \/ ThreadStep
  \/ ReadImu(GyroRest, AccelLevel)
  \/ TriggerReturnToHome
  \/ \E p \in PositionCalls : SetTargetPosition(p[1], p[2])
  \/ \E a \in GpsHomingCalls : UpdateGpsBegin(a)
  \/ UpdateGpsStep
  \/ \E a \in BaroCalls : UpdateBaroBegin(a)
  \/ UpdateBaroStep

SpecRth == Init /\ [][NextRth]_vars

\* A level craft without a fix whose flight mode is changed by the pilot
\* and by the return-to-home trigger while the loop runs.
NextMode ==
  \/ ThreadStep
  \/ ReadImu(GyroRest, AccelLevel)
  \/ TriggerReturnToHome
  \/ \E mode \in PilotModeCalls : SetFlightMode(mode)

SpecMode == Init /\ [][NextMode]_vars

\* update_pid on its own: any PID, called with any of the setpoints below
\* against a measurement of zero, any number of times up to the bound. The
\* errors are large, so that a few calls carry the integral over the limit
\* of every PID (the largest is 500 for pid_altitude: three calls) and a
\* change of sign still leaves the derivative term within 32 bits.
PidSetpoints == {-670000, 0, 670000}

PidUpdate(name, setpoint, measured) ==
  /\ calls < MaxCalls
  /\ calls' = calls + 1
  /\ pid' = [pid EXCEPT ![name] = update_pid(pid[name], name, setpoint, measured).pid]
  /\ UNCHANGED <<pc, hw, imu, sensors, cmd, motors, producers, tick, tk, history>>

NextPid == \E name \in PidNames, setpoint \in PidSetpoints : PidUpdate(name, setpoint, 0)

SpecPid == Init /\ [][NextPid]_vars

\* ------------------------------------------------------------------ claims
\* The control thread has run stabilize_and_mix in this iteration.
Mixed == pc \in {"emit", "sleep"}

\* C1: in an iteration whose stabilize_and_mix read cmd.armed as false, and
\* so in one whose mixer ran after a disarm_motors() that no arm_motors()
\* followed, all eight motor outputs are MOTOR_MIN once the mixer has run
\* and until the iteration ends, and MOTOR_MIN is the pulse handed to the
\* PWM driver on channels 1-4.
C1_DisarmedMotorsAtMin ==
  (Mixed /\ (~tk.armed_at_mix \/ tk.disarm_at_mix)) =>
     /\ \A i \in 1..8 : motors[i] = MOTOR_MIN
     /\ pc = "sleep" => \A i \in 1..4 : pwm[i] = MOTOR_MIN

\* An iteration that started armed, in which disarm_motors() was called
\* before the mixer ran, has ended with MOTOR_MIN on the channels.
C1_Witness == pc = "sleep" /\ tk.armed /\ tk.disarm_at_mix /\ \A i \in 1..4 : pwm[i] = MOTOR_MIN

\* C2: at the end of every iteration each of m1..m8 is within
\* [MOTOR_MIN, MOTOR_MAX] and m5..m8 equal MOTOR_MIN.
C2_MotorsInRange ==
  pc = "sleep" =>
     /\ \A i \in 1..8 : motors[i] >= MOTOR_MIN /\ motors[i] <= MOTOR_MAX
     /\ \A i \in 5..8 : motors[i] = MOTOR_MIN

\* C3: in an iteration whose attitude estimate is tilted beyond 45 degrees
\* in roll or pitch, the mixer reads cmd.armed as false and m1..m4 are
\* MOTOR_MIN, whenever arm_motors() is called.
C3_TiltDisarmsBeforeMix ==
  (Mixed /\ TiltExceeded(imu.angles)) => (~tk.armed_at_mix /\ \A i \in 1..4 : motors[i] = MOTOR_MIN)

\* The safety check, from its first statement to the one before the mixer.
InSafetyCheck == pc \in {"safety_tilt", "safety_gps", "safety_demote", "safety_led"}

\* C4: when the safety check finds flight_mode >= PositionHold without a
\* valid fix, its next step stores AltitudeHold in flight_mode; and no step
\* of the safety check changes cmd.armed while the tilt is within 45 degrees.
C4_GpsLossDemotes ==
  [][/\ (pc = "safety_gps" /\ pc' # pc /\ GpsLost(cmd, gps)) => (pc' = "safety_demote" /\ cmd' = cmd)
     /\ (pc = "safety_demote" /\ pc' # pc) => (pc' = "safety_led" /\ cmd'.flight_mode = MODE_ALTITUDE_HOLD)
     /\ (InSafetyCheck /\ pc' # pc /\ ~TiltExceeded(imu.angles)) => cmd'.armed = cmd.armed]_vars

\* An armed craft that started the iteration in PositionHold or above has
\* been demoted by the safety check and is still armed.
C4_Witness == pc = "safety_led" /\ tk.gps_lost /\ tk.flight_mode >= MODE_POSITION_HOLD /\ cmd.flight_mode = MODE_ALTITUDE_HOLD /\ cmd.armed

\* The state that the navigation controllers work on, as in TickStart.
NavState == <<cmd.setpoint.roll, cmd.setpoint.pitch, cmd.target_position, pid.pid_pos_n, pid.pid_pos_e, pid.pid_vel_n, pid.pid_vel_e>>

\* The flight-mode controllers of this iteration have all returned.
AfterNavigation == pc \in {"obstacle", "safety_tilt", "safety_gps", "safety_demote", "safety_led", "mix", "emit", "sleep"}

\* C5: in an iteration that starts with flight_mode >= PositionHold and no
\* valid fix, and that no API call disturbs, the altitude cascade has run
\* exactly once and the position cascade not at all when the controllers
\* have returned, and the roll and pitch setpoints, the target position and
\* the four position and velocity PIDs are as they were at the start.
C5_SkippedPositionCascade ==
  (AfterNavigation /\ tk.quiet /\ tk.flight_mode >= MODE_POSITION_HOLD /\ ~tk.fix_valid) =>
     /\ tk.alt_runs = 1
     /\ tk.pos_runs = 0
     /\ pc = "obstacle" => NavState = tk.nav

\* The cascade is skipped in PositionHold after it has run before (the
\* PIDs hold state) and the fix was lost.
C5_Witness ==
  /\ pc = "obstacle" /\ tk.quiet /\ tk.flight_mode = MODE_POSITION_HOLD /\ ~tk.fix_valid
  /\ tk.alt_runs = 1 /\ pid.pid_pos_n.integral # 0 /\ NavState = tk.nav

\* C6: an iteration that starts in ReturnToHome with a valid fix, less than
\* 2 m from home and below 1 m, and that no API call disturbs, ends disarmed
\* with m1..m4 at MOTOR_MIN on the channels.
C6_RthLands ==
  (pc = "sleep" /\ tk.quiet /\ tk.flight_mode = MODE_RTH /\ tk.fix_valid /\ tk.land) =>
     (~cmd.armed /\ \A i \in 1..4 : motors[i] = MOTOR_MIN /\ pwm[i] = MOTOR_MIN)

\* An armed craft has landed: the iteration started armed and ends disarmed.
C6_Witness == pc = "sleep" /\ tk.quiet /\ tk.flight_mode = MODE_RTH /\ tk.fix_valid /\ tk.land /\ tk.armed /\ ~cmd.armed

\* C7: every step that takes cmd.armed from false to true is a call of
\* arm_motors(); no step of the control thread is one.
C7_OnlyArmMotorsArms == [][(~cmd.armed /\ cmd'.armed) => (pc' = pc /\ ArmMotors)]_vars

\* The control thread disarmed the craft in an earlier iteration (the last
\* API call on the flag was arm_motors) and it is still disarmed.
C7_Witness == tick >= 1 /\ last_arm = "arm" /\ ~tk.armed /\ ~cmd.armed /\ pc = "sleep"

\* C8: the first armed pass of the mixer after arm_motors() has armed the
\* craft finds the integrals of pid_roll, pid_pitch and pid_yaw at zero.
C8_IntegralsResetOnArm ==
  [][(pc = "mix" /\ pc' = "emit" /\ cmd.armed /\ fresh_arm) =>
        (pid.pid_roll.integral = 0 /\ pid.pid_pitch.integral = 0 /\ pid.pid_yaw.integral = 0)]_vars

\* C9: when WHO_AM_I does not return 0xEA the control thread is never
\* created and no pulse is handed to the PWM driver.
C9_NoLoopWithoutImu == who_am_i # WHO_AM_I_ICM20948 => (pc = "boot" /\ \A i \in 1..8 : pwm[i] = 0)

\* The snapshot holds fields of two calls: a call is in progress and the
\* snapshot is neither what it found nor what it will leave.
GpsTorn == gps_call.pc # 0 /\ gps # gps_call.before /\ gps # GpsRecord(gps_call.args)

BaroTorn == baro_call.pc # 0 /\ baro # baro_call.before /\ baro # BaroRecord(baro_call.args)

ObstacleTorn == obstacle_call.pc # 0 /\ obstacle # obstacle_call.before /\ obstacle # ObstacleRecord(obstacle_call.args)

\* The next step of the control thread is a controller that reads several
\* fields of a snapshot that is torn.
TornRead ==
  \/ pc = "rth" /\ RthActive(cmd, gps) /\ GpsTorn
  \/ pc = "position" /\ PositionActive(cmd, gps) /\ GpsTorn
  \/ pc = "altitude" /\ AltitudeActive(cmd) /\ BaroTorn
  \/ pc = "obstacle" /\ obstacle.detected /\ ObstacleTorn

\* C10: no controller of the control thread reads a GPS, barometer or
\* obstacle snapshot that holds fields of two producer calls.
C10_NoTornRead == [][pc' # pc => ~TornRead]_vars

\* The next step of the control thread is a step that tests gps.fix_valid:
\* the nested and the top-level position cascade, and the GPS test of
\* safety_check.
ReadsFix ==
  \/ pc = "rth" /\ cmd.flight_mode = MODE_RTH
  \/ pc = "position" /\ cmd.flight_mode >= MODE_POSITION_HOLD
  \/ pc = "safety_gps" /\ cmd.flight_mode >= MODE_POSITION_HOLD

\* C11: every step of one iteration works on the sensor values that were
\* visible when the iteration started: the gps.fix_valid tested by the
\* position cascade and by safety_check is the one of the iteration's start,
\* whatever update_gps_data stores while the iteration runs.
C11_TickStartSnapshot == [][(pc' # pc /\ ReadsFix) => gps.fix_valid = tk.fix_valid]_vars

\* C12: in every state, also between two stores of update_gps_data,
\* gps.fix_valid is true exactly when gps.num_sats is at least 6.
C12_FixIffSixSats == gps.fix_valid <=> gps.num_sats >= 6

\* The place of each step in one iteration of the loop of ControlThread.
StepOrder(p) ==
  CASE p = "read_imu" -> 1
    [] p = "compute_angles" -> 2
    [] p = "dispatch" -> 3
    [] p = "rth" -> 4
    [] p = "altitude" -> 5
    [] p = "position_gate" -> 6
    [] p = "position" -> 7
    [] p = "obstacle" -> 8
    [] p = "safety_tilt" -> 9
    [] p = "safety_gps" -> 10
    [] p = "safety_demote" -> 11
    [] p = "safety_led" -> 12
    [] p = "mix" -> 13
    [] p = "emit" -> 14
    [] p = "sleep" -> 15
    [] OTHER -> 0

\* The steps that every iteration takes, each with the only steps that may
\* come right before it.
ComesAfter(p, q) ==
  /\ p = "read_imu" => q \in {"boot", "sleep"}
  /\ p = "compute_angles" => q = "read_imu"
  /\ p = "dispatch" => q = "compute_angles"
  /\ p = "position_gate" => q \in {"dispatch", "altitude"}
  /\ p = "obstacle" => q \in {"position_gate", "position"}
  /\ p = "safety_tilt" => q = "obstacle"
  /\ p = "safety_gps" => q = "safety_tilt"
  /\ p = "safety_led" => q \in {"safety_gps", "safety_demote"}
  /\ p = "mix" => q = "safety_led"
  /\ p = "emit" => q = "mix"
  /\ p = "sleep" => q = "emit"

\* C13: every iteration runs read IMU, attitude estimate, flight-mode
\* controllers, obstacle override, safety monitor, mixer, emission of
\* channels 1-4 and sleep in this order, none skipped and none repeated
\* (the safety monitor after every controller and before the mixer), and the
\* pulses emitted are the outputs the mixer of the same iteration computed.
C13_StepOrder ==
  /\ [][pc' # pc => /\ ComesAfter(pc', pc)
                    /\ StepOrder(pc') > StepOrder(pc) \/ (pc = "sleep" /\ pc' = "read_imu")]_vars
  /\ [](pc = "sleep" => \A i \in 1..4 : pwm[i] = motors[i])

\* An iteration after the first has run to its sleep with the craft armed:
\* the mixer computed the outputs and they were emitted.
C13_Witness ==
  /\ pc = "sleep" /\ tick >= 1 /\ tk.armed_at_mix
  /\ \E i \in 1..4 : motors[i] # MOTOR_MIN /\ pwm[i] = motors[i]

\* The anti-windup limit of a PID, in the units of its stored integral.
IntegralLimit(name) == F(PidConfig(name).max_integral) * LOOP_FREQ

\* C14: after every update_pid call with dt = DT, starting from init_pid,
\* the magnitude of the integral of every PID is at most its max_integral.
C14_IntegralBounded == \A name \in PidNames : Abs(pid[name].integral) <= IntegralLimit(name)

\* The clamp has acted: the integral of the PID with the widest limit stands
\* at the limit, which no sum of the errors equals.
C14_Witness ==
  /\ pid.pid_altitude.integral = IntegralLimit("pid_altitude")
  /\ pid.pid_altitude.prev_error = 670000

\* The output of the inner PID of the altitude cascade, taken as an integer
\* number of microseconds.
throttle_adjust(c, b, pd) ==
  LET outer == update_pid(pd.pid_altitude, "pid_altitude", c.target_altitude, b.altitude)
      target_climb_rate == constrain_float(outer.output, -F(3), F(3))
      inner == update_pid(pd.pid_velocity_z, "pid_velocity_z", target_climb_rate, b.vertical_speed)
  IN TDiv(inner.output, SCALE)

\* C15: when the altitude cascade has run, cmd.throttle is 1500 plus the
\* output of the inner PID clamped, as a signed value, to
\* [MOTOR_MIN, MOTOR_MAX]: MOTOR_MIN for an adjustment below -500, also
\* below -1500, never MOTOR_MAX for a negative adjustment.
C15_ThrottleSignedClamp ==
  [][(pc = "altitude" /\ pc' # pc /\ AltitudeActive(cmd)) =>
        cmd'.throttle = constrain_float(1500 + throttle_adjust(cmd, baro, pid), MOTOR_MIN, MOTOR_MAX)]_vars

\* C16: after compute_angles the estimated yaw is in [0, 360) and the
\* estimated roll and pitch are in [-180, 180] degrees.
C16_AnglesWrapped ==
  pc = "dispatch" =>
    /\ 0 <= imu.angles.yaw /\ imu.angles.yaw < F(360)
    /\ Abs(imu.angles.roll) <= F(180)
    /\ Abs(imu.angles.pitch) <= F(180)

\* The steps of an iteration after obstacle_avoidance, up to and including
\* stabilize_and_mix.
OverrideToMixer == pc \in {"safety_tilt", "safety_gps", "safety_demote", "safety_led", "mix"}

\* C17: when obstacle.detected is true and obstacle.distance is below 2 m,
\* obstacle_avoidance makes a negative pitch setpoint 0, leaves any other
\* pitch setpoint and replaces the roll setpoint by 10*sin(angle + 90);
\* otherwise it leaves both setpoints; and nothing changes the setpoints
\* between the override and the mixer of the same iteration, so the mixer
\* sees no negative pitch setpoint after an override.
C17_ObstacleOverride ==
  /\ [][(pc = "obstacle" /\ pc' # pc) =>
          IF obstacle.detected /\ obstacle.distance < F(2)
            THEN /\ cmd'.setpoint.pitch = (IF cmd.setpoint.pitch < 0 THEN 0 ELSE cmd.setpoint.pitch)
                 /\ cmd'.setpoint.roll = F(10) * SinDeg(obstacle.angle + F(90))
            ELSE cmd'.setpoint = cmd.setpoint]_vars
  /\ [][OverrideToMixer => cmd'.setpoint = cmd.setpoint]_vars

\* The override has fired on a forward (negative) pitch setpoint: the
\* position cascade of this iteration ran on a craft south of its target
\* (a positive velocity error north, hence a negative pitch), and after the
\* override the pitch setpoint is 0 and the roll setpoint the escape value.
C17_Witness ==
  /\ pc = "safety_tilt" /\ override_tick = tick /\ tk.pos_runs >= 1
  /\ pid.pid_vel_n.prev_error > 0
  /\ cmd.setpoint.pitch = 0 /\ cmd.setpoint.roll = F(10)

\* C18: the override holds for the iteration in which it fires only: the
\* roll setpoint the mixer uses was written by the override of this
\* iteration or by no override, never by the override of an earlier
\* iteration, whatever the flight mode.
C18_OverrideLastsOneTick == pc = "mix" => override_tick \in {-1, tick}

\* C19: in an iteration that starts in return-to-home mode with a valid fix
\* and that no API call disturbs, the position cascade has run exactly once
\* when the controllers have returned.
C19_OnePositionCascade ==
  (AfterNavigation /\ tk.quiet /\ tk.flight_mode = MODE_RTH /\ tk.fix_valid) => tk.pos_runs = 1

\* The distance to home as return_to_home_controller computes it.
HomeDistance == get_distance_meters(gps.position, cmd.home_position)

\* C20: when return_to_home_controller runs in return-to-home mode with a
\* valid fix and the land condition is false, it leaves target_altitude at
\* 0.5 m if the distance to home is below 3 m (also when the barometer is
\* below 20 m), otherwise at 20 m if the barometer is below 20 m, otherwise
\* unchanged; and it leaves target_position equal to home_position.
C20_RthTargetAltitude ==
  [][(/\ pc = "rth" /\ pc' # pc
      /\ cmd.flight_mode = MODE_RTH /\ gps.fix_valid
      /\ ~(HomeDistance < F(2) /\ baro.altitude < F(1))) =>
        /\ cmd'.target_altitude = (IF HomeDistance < F(3) THEN SCALE \div 2
                                   ELSE IF baro.altitude < F(20) THEN F(20)
                                   ELSE cmd.target_altitude)
        /\ cmd'.target_position = cmd.home_position]_vars

\* The descent rule has overridden the climb rule: the controller has run
\* within 3 m of home and below 20 m without landing, on a target position
\* that was not home when the iteration started.
C20_Witness ==
  /\ pc = "altitude" /\ cmd.flight_mode = MODE_RTH /\ gps.fix_valid /\ tk.quiet
  /\ HomeDistance < F(3) /\ baro.altitude < F(20)
  /\ cmd.target_altitude = SCALE \div 2
  /\ tk.nav[3] # cmd.home_position /\ cmd.target_position = cmd.home_position

\* C21: the safety monitor only downgrades the flight mode: the value that
\* the GPS failsafe of safety_check stores in cmd.flight_mode is never
\* higher than the mode that is current when it stores, whatever
\* set_flight_mode or trigger_return_to_home did since its test.
C21_SafetyOnlyDowngrades ==
  [][(pc = "safety_demote" /\ pc' # pc) => cmd'.flight_mode <= cmd.flight_mode]_vars

====
